---------------------------- MODULE Spec2Model ----------------------------
(***************************************************************************)
(* A model of bynow2code/goapigateway: the token-bucket rate limiter       *)
(* (limit.go) and the middleware chain with its forwarder (main.go).       *)
(*                                                                         *)
(* Time is a clock of ticks; one second is TicksPerSec ticks.  The code    *)
(* computes the refill in float64; with a tick of 1/2 s and small integer  *)
(* rates every product is exact in float64, so the integer arithmetic      *)
(* below is what the code computes for these inputs.                       *)
(***************************************************************************)
EXTENDS Integers, Sequences, FiniteSets, TLC

\* ------------------------------------------------------------- bounds
TicksPerSec == 2
MaxCap == 2
MaxRate == 2
MaxClock == 4
MaxCalls == 5
NumCallers == 2

VARIABLES
    tb,         \* the TokenBucket under test: [Cap, Rate, interval, Tokens, LastCheck]
    mu,         \* tb.mu: the caller holding the mutex, or NoOwner
    clock,      \* time.Now(), in ticks
    pc,         \* each caller's position inside Allow()
    results,    \* history: the Allow() calls that returned, in order of return
    callT,      \* each caller's `now` (the time its Allow() read)
    epochT,     \* history: Tokens right after the last refill that added tokens
    epochCalls, \* history: Allow() calls that returned since then
    epochTrue,  \* history: ... of which returned true
    epochOverlap, \* history: ... one of which returned while another caller waited in Lock()
    clamped,    \* history: some refill was cut down to Cap
    \* ---- the gateway (main.go, RateLimitMiddleware)
    config,        \* the loaded Config: [Routes, ApiKeys, NoAuthRoutes]
    middlewares,   \* the list handed to ChainMiddleware
    handler,       \* the composed handler: the stages, outermost first, then the final handler
    routeLimiters, \* RateLimitMiddleware's map: path -> TokenBucket
    globalLimiter, \* the package-level fallback TokenBucket
    req,           \* the request being served: [Method, Path, Header]
    inCtxDone,     \* the context the server gave the request (r.Context()) is cancelled
    reqCount,      \* requests accepted so far
    th,            \* the goroutines of the request: "m" the server's, "g" the one Timeout starts
    w,             \* the http.ResponseWriter of the request
    ctx,           \* Timeout's context: [active, deadline, done]
    doneCh,        \* Timeout's `done` channel is closed
    resp,          \* the backend's response held by proxyHandler
    outbound,      \* the outbound requests issued for the request
    hist           \* history of the request (trace of the stages, who wrote, ...)

bucketVars == <<tb, mu, pc, results, callT, epochT, epochCalls, epochTrue, epochOverlap, clamped>>
gwVars == <<config, middlewares, handler, routeLimiters, globalLimiter, req, inCtxDone, reqCount,
            th, w, ctx, doneCh, resp, outbound, hist>>
vars == <<clock, bucketVars, gwVars>>

Min(a, b) == IF a < b THEN a ELSE b

Callers == 1..NumCallers
NoOwner == 0

\* ------------------------------------------------------- limit.go: TokenBucket

\* NewTokenBucket(cap, rate), called at time `t`.
NewTokenBucket(cap, rate, t) ==
    [Cap |-> cap, Rate |-> rate, interval |-> TicksPerSec, Tokens |-> cap, LastCheck |-> t]

\* A refill amount rounded up instead of down.
NewTokensCeil(b, t) ==
    ((t - b.LastCheck) * b.Rate + b.interval - 1) \div b.interval

\* tokens := int(duration.Seconds() * float64(tb.Rate) / tb.interval.Seconds())
NewTokens(b, t) ==
    ((t - b.LastCheck) * b.Rate) \div b.interval

\* A refill that forgets the cap.
RefillNoCap(b, t) ==
    IF NewTokens(b, t) > 0
    THEN [b EXCEPT !.Tokens = b.Tokens + NewTokens(b, t), !.LastCheck = t]
    ELSE b

\* A refill that forgets to advance LastCheck.
RefillKeepLastCheck(b, t) ==
    IF NewTokens(b, t) > 0
    THEN [b EXCEPT !.Tokens = Min(b.Tokens + NewTokens(b, t), b.Cap)]
    ELSE b

\* A refill that advances LastCheck also when it adds no token.
RefillAlwaysStamp(b, t) ==
    [b EXCEPT !.Tokens = Min(b.Tokens + NewTokens(b, t), b.Cap), !.LastCheck = t]

\* The refill of Allow(): `if tokens > 0 { Tokens = min(Tokens+tokens, Cap); LastCheck = now }`
Refill(b, t) ==
    IF NewTokens(b, t) > 0
    THEN [b EXCEPT !.Tokens = Min(b.Tokens + NewTokens(b, t), b.Cap), !.LastCheck = t]
    ELSE b

\* An admission test that is off by one.
HasTokenOffByOne(b) == b.Tokens >= 0

\* `if tb.Tokens > 0`
HasToken(b) == b.Tokens > 0

\* `tb.Tokens--`
TakeToken(b) == [b EXCEPT !.Tokens = b.Tokens - 1]

\* A Lock() that never blocks (the mutex left out).
MutexIgnored == TRUE

\* tb.mu.Lock() returns only when no caller holds the mutex.
MutexAvailable == mu = NoOwner

\* ------------------------------------------- Allow(), one step per statement

\* A caller enters Allow() and waits in tb.mu.Lock().
AllowCall(p) ==
    /\ pc[p] = "idle"
    /\ Len(results) + Cardinality({q \in Callers : pc[q] # "idle"}) < MaxCalls
    /\ pc' = [pc EXCEPT ![p] = "lock"]
    /\ UNCHANGED <<tb, mu, clock, results, callT, epochT, epochCalls, epochTrue, epochOverlap, clamped, gwVars>>

AllowLock(p) ==
    /\ pc[p] = "lock"
    /\ MutexAvailable
    /\ mu' = p
    /\ pc' = [pc EXCEPT ![p] = "refill"]
    /\ UNCHANGED <<tb, clock, results, callT, epochT, epochCalls, epochTrue, epochOverlap, clamped, gwVars>>

AllowRefill(p) ==
    /\ pc[p] = "refill"
    /\ tb' = Refill(tb, clock)
    /\ callT' = [callT EXCEPT ![p] = clock]
    /\ pc' = [pc EXCEPT ![p] = "check"]
    /\ IF NewTokens(tb, clock) > 0
       THEN /\ epochT' = Refill(tb, clock).Tokens
            /\ epochCalls' = 0
            /\ epochTrue' = 0
            /\ epochOverlap' = FALSE
            /\ clamped' = (clamped \/ tb.Tokens + NewTokens(tb, clock) > tb.Cap)
       ELSE UNCHANGED <<epochT, epochCalls, epochTrue, epochOverlap, clamped>>
    /\ UNCHANGED <<mu, clock, results, gwVars>>

AllowCheck(p) ==
    /\ pc[p] = "check"
    /\ pc' = [pc EXCEPT ![p] = IF HasToken(tb) THEN "dec" ELSE "retfalse"]
    /\ UNCHANGED <<tb, mu, clock, results, callT, epochT, epochCalls, epochTrue, epochOverlap, clamped, gwVars>>

AllowDec(p) ==
    /\ pc[p] = "dec"
    /\ tb' = TakeToken(tb)
    /\ pc' = [pc EXCEPT ![p] = "rettrue"]
    /\ UNCHANGED <<mu, clock, results, callT, epochT, epochCalls, epochTrue, epochOverlap, clamped, gwVars>>

\* The return: the deferred tb.mu.Unlock() runs, and the caller has its answer.
AllowReturn(p) ==
    /\ pc[p] \in {"rettrue", "retfalse"}
    /\ mu' = NoOwner
    /\ results' = Append(results, [t |-> callT[p], ok |-> pc[p] = "rettrue", left |-> tb.Tokens])
    /\ epochCalls' = epochCalls + 1
    /\ epochTrue' = epochTrue + (IF pc[p] = "rettrue" THEN 1 ELSE 0)
    /\ pc' = [pc EXCEPT ![p] = "idle"]
    /\ UNCHANGED <<tb, clock, callT, epochT, clamped, gwVars>>
    /\ epochOverlap' = (epochOverlap \/ \E q \in Callers : q # p /\ pc[q] = "lock")

\* Time passes.
Tick ==
    /\ clock < MaxClock
    /\ clock' = clock + 1
    /\ UNCHANGED <<tb, mu, pc, results, callT, epochT, epochCalls, epochTrue, epochOverlap, clamped, gwVars>>


\* ---------------------------------------------------------------- inputs

MaxRoutes == 2
MaxQPS == 1
MaxRequests == 2
MaxIdleClock == 2
TimeoutSeconds == 3

Max(a, b) == IF a > b THEN a ELSE b

\* Request paths; "/x" is never the path of a route.
RoutePathSeq == <<"/a", "/b">>
RoutePaths == {RoutePathSeq[i] : i \in DOMAIN RoutePathSeq}
PathIndex(p) == CHOOSE i \in DOMAIN RoutePathSeq : RoutePathSeq[i] = p
HttpPaths == RoutePaths \cup {"/x"}
Methods == {"GET", "OPTIONS"}

\* http.Header, as a function from names to values.
EmptyHeader == <<>>
HeaderGet(h, k) == IF k \in DOMAIN h THEN h[k] ELSE ""
HeaderSet(h, k, v) == [x \in DOMAIN h \cup {k} |-> IF x = k THEN v ELSE h[x]]
HeaderDel(h, k) == [x \in DOMAIN h \ {k} |-> h[x]]
\* A copy that copies nothing.
HeaderCopyKeepDst(dst, src) == dst
\* `for k, v := range src { dst[k] = v }`
HeaderCopy(dst, src) == [x \in DOMAIN dst \cup DOMAIN src |-> IF x \in DOMAIN src THEN src[x] ELSE dst[x]]

RequestHeaders ==
    {EmptyHeader} \cup {("X-API-Key" :> v) : v \in {"", "k1", "zz"}}
Requests == [Method : Methods, Path : HttpPaths, Header : RequestHeaders]

\* RouteConfig values and route tables (no path listed twice; the paths of a
\* table in the order of RoutePathSeq).
RouteConfigs ==
    [Path : RoutePaths, Target : {"http://up"}, QPS : 0..MaxQPS]
        \cup {[Path |-> "/b", Target |-> "://bad", QPS |-> 0]}
RouteTables ==
    {rs \in UNION {[1..n -> RouteConfigs] : n \in 0..MaxRoutes} :
        \A i, j \in DOMAIN rs : i < j => PathIndex(rs[i].Path) < PathIndex(rs[j].Path)}
Configs ==
    [Routes : RouteTables, ApiKeys : {{"k1"}, {"", "k1"}}, NoAuthRoutes : {{"/a"}}]

\* What a backend may answer.
BackendResponses ==
    [StatusCode : {201}, Header : {("X-Test" :> "1")}, Body : {"backend body"}]
NoResp == [StatusCode |-> 0, Header |-> EmptyHeader, Body |-> ""]

\* ------------------------------------------------- net/http's ResponseWriter

NewWriter ==
    [hdr |-> EmptyHeader, wroteHeader |-> FALSE, status |-> 0, sentHdr |-> EmptyHeader,
     body |-> <<>>, finished |-> FALSE]

\* w.Header().Set(k, v)
WHeaderSet(ww, k, v) ==
    IF ww.finished THEN ww ELSE [ww EXCEPT !.hdr = HeaderSet(@, k, v)]

\* w.WriteHeader(code): the first call decides the status and sends the headers.
WriteHeader(ww, code) ==
    IF ww.finished \/ ww.wroteHeader THEN ww
    ELSE [ww EXCEPT !.wroteHeader = TRUE, !.status = code, !.sentHdr = ww.hdr]

\* w.Write(data): writes the header with 200 first when none was written.
Write(ww, data) ==
    IF ww.finished THEN ww
    ELSE [WriteHeader(ww, 200) EXCEPT !.body = Append(@, data)]

\* An http.Error that starts from an empty header map.
HttpErrorResetHeaders(ww, msg, code) ==
    Write(WriteHeader([ww EXCEPT !.hdr =
        IF ww.finished THEN @
        ELSE HeaderSet(HeaderSet(EmptyHeader,
                 "Content-Type", "text/plain; charset=utf-8"),
                 "X-Content-Type-Options", "nosniff")], code), msg)

\* http.Error(w, msg, code)
HttpError(ww, msg, code) ==
    Write(WriteHeader([ww EXCEPT !.hdr =
        IF ww.finished THEN @
        ELSE HeaderSet(HeaderSet(HeaderDel(@, "Content-Length"),
                 "Content-Type", "text/plain; charset=utf-8"),
                 "X-Content-Type-Options", "nosniff")], code), msg)

\* The server, once the handler has returned: an unwritten header goes out as 200.
Finish(ww) == [WriteHeader(ww, 200) EXCEPT !.finished = TRUE]

\* ------------------------------------------------- limit.go: the rate-limit stage

\* Allow() as one step: the mutex makes the steps above atomic to other callers.
Allow(b, t) ==
    LET r == Refill(b, t)
    IN  IF HasToken(r) THEN [ok |-> TRUE, tb |-> TakeToken(r)]
        ELSE [ok |-> FALSE, tb |-> r]

\* var globalLimiter = NewTokenBucket(1, 1)
GlobalLimiterCap == 1
GlobalLimiterRate == 1

\* The loop of RateLimitMiddleware that builds routeLimiters, from route i on;
\* it leaves the loop (break) after the first route with QPS > 0.
RECURSIVE RouteLimitersFrom(_, _, _)
RouteLimitersFrom(routes, i, t) ==
    IF i > Len(routes) THEN <<>>
    ELSE IF routes[i].QPS > 0
         THEN (routes[i].Path :> NewTokenBucket(routes[i].QPS * 2, routes[i].QPS, t))
         ELSE RouteLimitersFrom(routes, i + 1, t)

\* The limiter of a request: the route's own, or "global" (globalLimiter).
SelectLimiter(limiters, path) ==
    IF path \in DOMAIN limiters THEN path ELSE "global"

\* ------------------------------------------------- main.go: the chain

\* The list of main().
WiredMiddlewares == <<"Auth", "RateLimit", "CORS", "Timeout", "Log">>

\* A composition that applies the middlewares first to last.
RECURSIVE ChainForward(_, _)
ChainForward(final, mws) ==
    IF mws = <<>> THEN final
    ELSE ChainForward(<<Head(mws)>> \o final, Tail(mws))

\* ChainMiddleware(handler, middlewares...): `for i := len-1; i >= 0; i--`,
\* each middleware wrapping the handler built so far.
RECURSIVE ChainMiddleware(_, _)
ChainMiddleware(final, mws) ==
    IF mws = <<>> THEN final
    ELSE ChainMiddleware(<<mws[Len(mws)]>> \o final, SubSeq(mws, 1, Len(mws) - 1))

\* An Auth decision that forgets the exempt paths.
AuthDecisionNoExempt(r, cfg) ==
    IF HeaderGet(r.Header, "X-API-Key") = "" THEN "missing"
    ELSE IF HeaderGet(r.Header, "X-API-Key") \in cfg.ApiKeys THEN "next"
    ELSE "invalid"

\* AuthMiddleware's decision.
AuthDecision(r, cfg) ==
    IF r.Path \in cfg.NoAuthRoutes THEN "next"
    ELSE IF HeaderGet(r.Header, "X-API-Key") = "" THEN "missing"
    ELSE IF HeaderGet(r.Header, "X-API-Key") \in cfg.ApiKeys THEN "next"
    ELSE "invalid"

\* proxyHandler's lookup: the loop has no break, the last matching route wins.
RECURSIVE LookupFrom(_, _, _, _)
LookupFrom(routes, path, i, target) ==
    IF i > Len(routes) THEN target
    ELSE LookupFrom(routes, path, i + 1,
                    IF routes[i].Path = path THEN routes[i].Target ELSE target)
\* A lookup that takes the first route whatever the path.
LookupAny(routes, path) == IF routes = <<>> THEN "" ELSE routes[1].Target
Lookup(routes, path) == LookupFrom(routes, path, 1, "")

\* ---- goroutines
Threads == {"m", "g"}
IdleThread == [idx |-> 0, ph |-> "idle", base |-> 0]
Stage(x) == handler[th[x].idx]
At(x, s, ph) == th[x].ph = ph /\ th[x].idx \in DOMAIN handler /\ Stage(x) = s

\* The goroutine after its stage called next(w, r).
Called(x) == [th EXCEPT ![x] = [@ EXCEPT !.idx = @ + 1, !.ph = "call"]]
\* Auth, RateLimit and CORS do nothing after their next(w, r) returned: a return
\* into one of them is a return out of it as well.
PassThrough == {"Auth", "RateLimit", "CORS"}

\* The goroutine `t` and the history `h` after its stage's handler returned:
\* it is done when that was the handler it started with, else it is back in
\* the stage that called it.
RECURSIVE Unwind(_, _)
Unwind(t, h) ==
    IF t.idx = t.base THEN [t |-> [t EXCEPT !.ph = "done"], h |-> h]
    ELSE IF handler[t.idx - 1] \in PassThrough
         THEN Unwind([t EXCEPT !.idx = @ - 1],
                     [h EXCEPT !.trace = Append(@, [e |-> "exit", s |-> handler[t.idx - 1]])])
         ELSE [t |-> [t EXCEPT !.idx = @ - 1, !.ph = "ret"], h |-> h]

\* ---- history
StageNames == {"Auth", "RateLimit", "CORS", "Timeout", "Log", "proxy"}
NewHist ==
    [trace |-> <<>>, calls |-> [s \in StageNames |-> 0], writers |-> {},
     logged |-> <<>>, limiter |-> "none", allow |-> "none",
     fired |-> FALSE, inFlight |-> FALSE, lateWrite |-> FALSE,
     proxyCode |-> 0, copy |-> "none"]
HEnter(h, s) == [h EXCEPT !.trace = Append(@, [e |-> "enter", s |-> s])]
HExit(h, s) == [h EXCEPT !.trace = Append(@, [e |-> "exit", s |-> s])]
HCall(h, s) == [h EXCEPT !.calls[s] = @ + 1]
HWrite(h, s) == [h EXCEPT !.writers = @ \cup {s}, !.lateWrite = @ \/ w.finished]

\* The first status code the forwarder passed to http.Error or w.WriteHeader.
HCode(h, code) == [h EXCEPT !.proxyCode = IF @ = 0 THEN code ELSE @]

HShort(h, s) == HExit(HWrite(HEnter(h, s), s), s)
HOnward(h, s) == HCall(HEnter(h, s), s)

\* A return after which the goroutine never closes `done`.
ReturnNoClose(x, h) ==
    /\ th' = [th EXCEPT ![x] = Unwind(th[x], h).t]
    /\ hist' = Unwind(th[x], h).h
    /\ doneCh' = doneCh

\* The handler of goroutine x returns, leaving history h; the goroutine that
\* Timeout started then runs `close(done)`.
Return(x, h) ==
    /\ th' = [th EXCEPT ![x] = Unwind(th[x], h).t]
    /\ hist' = Unwind(th[x], h).h
    /\ doneCh' = (doneCh \/ (x = "g" /\ Unwind(th[x], h).t.ph = "done"))

NoRequest == [Method |-> "", Path |-> "", Header |-> EmptyHeader]
NoCtx == [active |-> FALSE, deadline |-> 0, done |-> FALSE]
\* TimeoutMiddleware(3 * time.Second), in ticks
TimeoutTicks == TimeoutSeconds * TicksPerSec
\* wrappedWriter.StatusCode: the wrapper is built but `next(w, r)` gets w, so no
\* WriteHeader ever reaches it and it keeps its zero value.
WrapperStatusCode == 0
\* A target http.NewRequestWithContext cannot parse.
BadTarget == "://bad"
NewRequestFails(target) == target = BadTarget

\* ---- the server accepts a request and calls the composed handler
NewRequest ==
    /\ reqCount < MaxRequests
    /\ th["m"].ph = "idle" \/ w.finished
    /\ th["g"].ph \in {"idle", "done"}
    /\ \E r \in Requests : req' = r
    /\ inCtxDone' = FALSE
    /\ reqCount' = reqCount + 1
    /\ th' = [m |-> [idx |-> 1, ph |-> "call", base |-> 1], g |-> IdleThread]
    /\ w' = NewWriter
    /\ ctx' = NoCtx
    /\ doneCh' = FALSE
    /\ resp' = NoResp
    /\ outbound' = <<>>
    /\ hist' = NewHist
    /\ UNCHANGED <<clock, bucketVars, config, middlewares, handler, routeLimiters, globalLimiter>>

\* ---- AuthMiddleware
AuthHandler(x) ==
    /\ At(x, "Auth", "call")
    /\ LET d == AuthDecision(req, config)
       IN  IF d = "next"
           THEN /\ th' = Called(x)
                /\ hist' = HOnward(hist, "Auth")
                /\ UNCHANGED <<w, doneCh>>
           ELSE /\ w' = IF d = "missing"
                        THEN HttpError(WHeaderSet(w, "WWW-Authenticate", "X-API-Key"),
                                       "401 Unauthorized: Missing X-API-Key", 401)
                        ELSE HttpError(w, "401 Unauthorized: Invalid X-API-Key", 401)
                /\ Return(x, HShort(hist, "Auth"))
    /\ UNCHANGED <<clock, bucketVars, config, middlewares, handler, routeLimiters,
                   globalLimiter, req, inCtxDone, reqCount, ctx, resp, outbound>>

\* ---- RateLimitMiddleware's handler
RateLimitHandler(x) ==
    /\ At(x, "RateLimit", "call")
    /\ LET lim == SelectLimiter(routeLimiters, req.Path)
           b == IF lim = "global" THEN globalLimiter ELSE routeLimiters[lim]
           a == Allow(b, clock)
       IN  /\ IF lim = "global"
              THEN /\ globalLimiter' = a.tb
                   /\ UNCHANGED routeLimiters
              ELSE /\ routeLimiters' = [routeLimiters EXCEPT ![lim] = a.tb]
                   /\ UNCHANGED globalLimiter
           /\ IF a.ok
              THEN /\ th' = Called(x)
                   /\ hist' = [HOnward(hist, "RateLimit") EXCEPT !.limiter = lim, !.allow = "true"]
                   /\ UNCHANGED <<w, doneCh>>
              ELSE /\ w' = HttpError(WHeaderSet(w, "Retry-After", "1"),
                                     "429 Too Many Requests", 429)
                   /\ Return(x, [HShort(hist, "RateLimit") EXCEPT !.limiter = lim, !.allow = "false"])
    /\ UNCHANGED <<clock, bucketVars, config, middlewares, handler, req, inCtxDone, reqCount,
                   ctx, resp, outbound>>

\* ---- CORSAMiddleware
\* A CORS stage that forgets Access-Control-Allow-Headers.
CORSHeadersTwo(ww) ==
    WHeaderSet(WHeaderSet(ww,
        "Access-Control-Allow-Origin", "*"),
        "Access-Control-Allow-Methods", "GET, POST, PUT, DELETE, OPTIONS")

\* The three w.Header().Set(...) of CORSAMiddleware.
CORSHeaders(ww) ==
    WHeaderSet(WHeaderSet(WHeaderSet(ww,
        "Access-Control-Allow-Origin", "*"),
        "Access-Control-Allow-Methods", "GET, POST, PUT, DELETE, OPTIONS"),
        "Access-Control-Allow-Headers", "Content-Type, Authorization")

CORSHandler(x) ==
    /\ At(x, "CORS", "call")
    /\ LET w1 == CORSHeaders(w)
       IN  IF req.Method = "OPTIONS"
           THEN /\ w' = WriteHeader(w1, 200)
                /\ Return(x, HShort(hist, "CORS"))
           ELSE /\ w' = w1
                /\ th' = Called(x)
                /\ hist' = HWrite(HOnward(hist, "CORS"), "CORS")
                /\ UNCHANGED doneCh
    /\ UNCHANGED <<clock, bucketVars, config, middlewares, handler, routeLimiters,
                   globalLimiter, req, inCtxDone, reqCount, ctx, resp, outbound>>

\* ---- TimeoutMiddleware: context.WithTimeout, make(chan), `go func() { next(w, r); close(done) }()`
TimeoutHandler(x) ==
    /\ At(x, "Timeout", "call")
    /\ x = "m"
    /\ ctx' = [active |-> TRUE, deadline |-> clock + TimeoutTicks, done |-> FALSE]
    /\ doneCh' = FALSE
    /\ th' = [th EXCEPT ![x] = [@ EXCEPT !.ph = "select"],
                        !["g"] = [idx |-> th[x].idx + 1, ph |-> "call", base |-> th[x].idx + 1]]
    /\ hist' = HOnward(hist, "Timeout")
    /\ UNCHANGED <<clock, bucketVars, config, middlewares, handler, routeLimiters,
                   globalLimiter, req, inCtxDone, reqCount, w, resp, outbound>>

\* The timer of the context fires: the deadline has come.
DeadlineFires ==
    /\ ctx.active
    /\ ~ctx.done
    /\ ctx' = [ctx EXCEPT !.done = TRUE]
    /\ clock' = Max(clock, ctx.deadline)
    /\ hist' = [hist EXCEPT !.fired = TRUE, !.inFlight = (th["g"].ph = "do")]
    /\ UNCHANGED <<bucketVars, config, middlewares, handler, routeLimiters,
                   globalLimiter, req, inCtxDone, reqCount, th, w, doneCh, resp, outbound>>

\* select, `case <-done:`, then the deferred cancel().
TimeoutSelectDone(x) ==
    /\ At(x, "Timeout", "select")
    /\ doneCh
    /\ Return(x, HExit(hist, "Timeout"))
    /\ ctx' = [ctx EXCEPT !.active = FALSE, !.done = TRUE]
    /\ UNCHANGED <<clock, bucketVars, config, middlewares, handler, routeLimiters,
                   globalLimiter, req, inCtxDone, reqCount, w, resp, outbound>>

\* select, `case <-ctx.Done():` http.Error(w, ..., 504), then the deferred cancel().
TimeoutSelectTimeout(x) ==
    /\ At(x, "Timeout", "select")
    /\ ctx.done
    /\ w' = HttpError(w, "Request timeout", 504)
    /\ Return(x, HExit(HWrite(hist, "Timeout"), "Timeout"))
    /\ ctx' = [ctx EXCEPT !.active = FALSE]
    /\ UNCHANGED <<clock, bucketVars, config, middlewares, handler, routeLimiters,
                   globalLimiter, req, inCtxDone, reqCount, resp, outbound>>

\* ---- LogMiddleware
LogHandler(x) ==
    /\ At(x, "Log", "call")
    /\ th' = Called(x)
    /\ hist' = HOnward(hist, "Log")
    /\ UNCHANGED <<clock, bucketVars, config, middlewares, handler, routeLimiters,
                   globalLimiter, req, inCtxDone, reqCount, w, ctx, doneCh, resp, outbound>>

\* log.Printf(..., wrappedWriter.StatusCode, ...) after next(w, r) returned.
LogAfter(x) ==
    /\ At(x, "Log", "ret")
    /\ Return(x, HExit([hist EXCEPT !.logged = Append(@, WrapperStatusCode)], "Log"))
    /\ UNCHANGED <<clock, bucketVars, config, middlewares, handler, routeLimiters,
                   globalLimiter, req, inCtxDone, reqCount, w, ctx, resp, outbound>>

\* ---- proxyHandler
\* Lookup, 404 or 500, or the outbound request is built and client.Do is called.
ProxyLookup(x) ==
    /\ At(x, "proxy", "call")
    /\ LET target == Lookup(config.Routes, req.Path)
       IN  IF target = "" \/ NewRequestFails(target)
           THEN /\ w' = IF target = ""
                        THEN HttpError(w, "404 Route Not Found", 404)
                        ELSE HttpError(w, "Failed to create proxy request", 500)
                /\ Return(x, HCode(HShort(hist, "proxy"), IF target = "" THEN 404 ELSE 500))
                /\ UNCHANGED outbound
           ELSE /\ outbound' = Append(outbound,
                        [Method |-> req.Method, Target |-> target, Header |-> req.Header])
                /\ th' = [th EXCEPT ![x] = [@ EXCEPT !.ph = "do"]]
                /\ hist' = HEnter(hist, "proxy")
                /\ UNCHANGED <<w, doneCh>>
    /\ UNCHANGED <<clock, bucketVars, config, middlewares, handler, routeLimiters,
                   globalLimiter, req, inCtxDone, reqCount, ctx, resp>>

\* client.Do returns an error: the transport failed, or the request's context is done.
ProxyDoError(x) ==
    /\ At(x, "proxy", "do")
    /\ w' = HttpError(w, "Failed to forward request", 502)
    /\ Return(x, HCode(HExit(HWrite(hist, "proxy"), "proxy"), 502))
    /\ UNCHANGED <<clock, bucketVars, config, middlewares, handler, routeLimiters,
                   globalLimiter, req, inCtxDone, reqCount, ctx, resp, outbound>>

\* client.Do returns the backend's response (its context is not done).
ProxyDoResponse(x) ==
    /\ At(x, "proxy", "do")
    /\ ~ctx.done
    /\ \E r \in BackendResponses : resp' = r
    /\ th' = [th EXCEPT ![x] = [@ EXCEPT !.ph = "hdr"]]
    /\ UNCHANGED <<clock, bucketVars, config, middlewares, handler, routeLimiters,
                   globalLimiter, req, inCtxDone, reqCount, w, ctx, doneCh, outbound, hist>>

\* `for k, v := range resp.Header { w.Header()[k] = v }`
ProxyCopyHeader(x) ==
    /\ At(x, "proxy", "hdr")
    /\ w' = IF w.finished THEN w ELSE [w EXCEPT !.hdr = HeaderCopy(@, resp.Header)]
    /\ th' = [th EXCEPT ![x] = [@ EXCEPT !.ph = "status"]]
    /\ hist' = HWrite(hist, "proxy")
    /\ UNCHANGED <<clock, bucketVars, config, middlewares, handler, routeLimiters,
                   globalLimiter, req, inCtxDone, reqCount, ctx, doneCh, resp, outbound>>

\* w.WriteHeader(resp.StatusCode)
ProxyWriteHeader(x) ==
    /\ At(x, "proxy", "status")
    /\ w' = WriteHeader(w, resp.StatusCode)
    /\ th' = [th EXCEPT ![x] = [@ EXCEPT !.ph = "copy"]]
    /\ hist' = HCode(HWrite(hist, "proxy"), resp.StatusCode)
    /\ UNCHANGED <<clock, bucketVars, config, middlewares, handler, routeLimiters,
                   globalLimiter, req, inCtxDone, reqCount, ctx, doneCh, resp, outbound>>

\* io.Copy(w, resp.Body) succeeds.
ProxyCopyBody(x) ==
    /\ At(x, "proxy", "copy")
    /\ w' = Write(w, resp.Body)
    /\ Return(x, HExit(HWrite([hist EXCEPT !.copy = "ok"], "proxy"), "proxy"))
    /\ UNCHANGED <<clock, bucketVars, config, middlewares, handler, routeLimiters,
                   globalLimiter, req, inCtxDone, reqCount, ctx, resp, outbound>>

\* io.Copy(w, resp.Body) fails: http.Error(w, ..., 502) after the header went out.
ProxyCopyFails(x) ==
    /\ At(x, "proxy", "copy")
    /\ w' = HttpError(w, "Failed to copy response body", 502)
    /\ Return(x, HExit(HWrite([hist EXCEPT !.copy = "failed"], "proxy"), "proxy"))
    /\ UNCHANGED <<clock, bucketVars, config, middlewares, handler, routeLimiters,
                   globalLimiter, req, inCtxDone, reqCount, ctx, resp, outbound>>

\* ---- the server: the composed handler returned, the response is completed and
\* the context of the request is cancelled.
ServerFinish ==
    /\ th["m"].ph = "done"
    /\ ~w.finished
    /\ w' = Finish(w)
    /\ inCtxDone' = TRUE
    /\ UNCHANGED <<clock, bucketVars, config, middlewares, handler, routeLimiters,
                   globalLimiter, req, reqCount, th, ctx, doneCh, resp, outbound, hist>>

\* The client goes away while its request is served: the server cancels the
\* context of the request.
ClientDisconnect ==
    /\ th["m"].ph # "idle"
    /\ ~w.finished
    /\ ~inCtxDone
    /\ inCtxDone' = TRUE
    /\ UNCHANGED <<clock, bucketVars, config, middlewares, handler, routeLimiters,
                   globalLimiter, req, reqCount, th, w, ctx, doneCh, resp, outbound, hist>>

\* A second passes between requests.
GwTick ==
    /\ th["m"].ph = "idle" \/ w.finished
    /\ th["g"].ph \in {"idle", "done"}
    /\ clock < MaxIdleClock
    /\ clock' = clock + TicksPerSec
    /\ UNCHANGED <<bucketVars, gwVars>>

\* The variables of the other part of the model, at rest.
BucketAbsent ==
    /\ tb = NewTokenBucket(1, 1, 0)
    /\ mu = NoOwner
    /\ pc = [p \in Callers |-> "idle"]
    /\ results = <<>>
    /\ callT = [p \in Callers |-> 0]
    /\ epochT = 1
    /\ epochCalls = 0
    /\ epochTrue = 0
    /\ epochOverlap = FALSE
    /\ clamped = FALSE

GatewayAbsent ==
    /\ config = [Routes |-> <<>>, ApiKeys |-> {}, NoAuthRoutes |-> {}]
    /\ middlewares = <<>>
    /\ handler = <<>>
    /\ routeLimiters = <<>>
    /\ globalLimiter = NewTokenBucket(GlobalLimiterCap, GlobalLimiterRate, 0)
    /\ req = NoRequest
    /\ inCtxDone = FALSE
    /\ reqCount = 0
    /\ th = [m |-> IdleThread, g |-> IdleThread]
    /\ w = NewWriter
    /\ ctx = NoCtx
    /\ doneCh = FALSE
    /\ resp = NoResp
    /\ outbound = <<>>
    /\ hist = NewHist

\* ---- the specification of one TokenBucket and its callers
BucketInit ==
    /\ clock = 0
    /\ \E c \in 1..MaxCap, r \in 1..MaxRate : tb = NewTokenBucket(c, r, 0)
    /\ mu = NoOwner
    /\ pc = [p \in Callers |-> "idle"]
    /\ results = <<>>
    /\ callT = [p \in Callers |-> 0]
    /\ epochT = tb.Cap
    /\ epochCalls = 0
    /\ epochTrue = 0
    /\ epochOverlap = FALSE
    /\ clamped = FALSE
    /\ GatewayAbsent

BucketNext ==
    \/ \E p \in Callers : AllowCall(p)
    \/ \E p \in Callers : AllowLock(p)
    \/ \E p \in Callers : AllowRefill(p)
    \/ \E p \in Callers : AllowCheck(p)
    \/ \E p \in Callers : AllowDec(p)
    \/ \E p \in Callers : AllowReturn(p)
    \/ Tick

SpecBucket == BucketInit /\ [][BucketNext]_vars

\* main(): the config is loaded, the middlewares are built and composed.
Init ==
    /\ clock = 0
    /\ BucketAbsent
    /\ config \in Configs
    /\ middlewares = WiredMiddlewares
    /\ handler = ChainMiddleware(<<"proxy">>, middlewares)
    /\ routeLimiters = RouteLimitersFrom(config.Routes, 1, 0)
    /\ globalLimiter = NewTokenBucket(GlobalLimiterCap, GlobalLimiterRate, 0)
    /\ req = NoRequest
    /\ inCtxDone = FALSE
    /\ reqCount = 0
    /\ th = [m |-> IdleThread, g |-> IdleThread]
    /\ w = NewWriter
    /\ ctx = NoCtx
    /\ doneCh = FALSE
    /\ resp = NoResp
    /\ outbound = <<>>
    /\ hist = NewHist

Next ==
    \/ NewRequest
    \/ \E x \in Threads : AuthHandler(x)
    \/ \E x \in Threads : RateLimitHandler(x)
    \/ \E x \in Threads : CORSHandler(x)
    \/ \E x \in Threads : TimeoutHandler(x)
    \/ DeadlineFires
    \/ \E x \in Threads : TimeoutSelectDone(x)
    \/ \E x \in Threads : TimeoutSelectTimeout(x)
    \/ \E x \in Threads : LogHandler(x)
    \/ \E x \in Threads : LogAfter(x)
    \/ \E x \in Threads : ProxyLookup(x)
    \/ \E x \in Threads : ProxyDoError(x)
    \/ \E x \in Threads : ProxyDoResponse(x)
    \/ \E x \in Threads : ProxyCopyHeader(x)
    \/ \E x \in Threads : ProxyWriteHeader(x)
    \/ \E x \in Threads : ProxyCopyBody(x)
    \/ \E x \in Threads : ProxyCopyFails(x)
    \/ ServerFinish
    \/ ClientDisconnect
    \/ GwTick

Spec == Init /\ [][Next]_vars

\* ---- the gateway with one route table, its goroutines scheduled fairly: a
\* goroutine that can run does run, and client.Do returns once the context of
\* its request is done.
LiveConfig ==
    [Routes |-> <<[Path |-> "/a", Target |-> "http://up", QPS |-> 1],
                  [Path |-> "/b", Target |-> BadTarget, QPS |-> 0]>>,
     ApiKeys |-> {"k1"}, NoAuthRoutes |-> {"/a"}]
LiveInit ==
    /\ config = LiveConfig
    /\ Init
Fairness ==
    /\ WF_vars(ProxyDoError("g"))
    /\ WF_vars(LogAfter("g"))
SpecLive == LiveInit /\ [][Next]_vars /\ Fairness

\* ------------------------------------------------------------- claims C1-C4

\* C1: with no time elapsed since NewTokenBucket(C, R), the first C Allow()
\* calls return true and the (C+1)-th returns false.
C1_BurstOfCapacity ==
    \A i \in 1..Len(results) :
        results[i].t = 0 => (results[i].ok <=> i <= tb.Cap)

\* C1 witness: C+1 calls have returned, all made at the time of construction.
C1_Witness ==
    /\ Len(results) >= tb.Cap + 1
    /\ results[tb.Cap + 1].t = 0

\* C2: in every state of the bucket, also in the middle of a call and after
\* waits far longer than Cap/Rate, 0 <= Tokens <= Cap.
C2_TokensWithinCap ==
    /\ 0 <= tb.Tokens
    /\ tb.Tokens <= tb.Cap

\* C2 witness: a refill whose sum Tokens+tokens exceeded Cap has happened
\* (after a wait of more than Cap/Rate seconds), and calls have been served.
C2_Witness ==
    /\ clamped
    /\ Len(results) >= 2
    /\ clock * tb.Rate > 2 * tb.Cap * TicksPerSec

\* C3: N callers each calling Allow() on a bucket holding T tokens, with no
\* refill during the calls: once all have returned, exactly min(N, T) got true
\* and Tokens is T - min(N, T), whatever the interleaving.
C3_ConcurrentAdmission ==
    (\A p \in Callers : pc[p] = "idle") =>
        /\ epochTrue = Min(epochCalls, epochT)
        /\ tb.Tokens = epochT - epochTrue

\* C3 witness: all callers have returned; since the last refill more calls were
\* made than there were tokens (N > T >= 1), and a caller returned while
\* another was waiting in Lock(), so the calls did overlap.
C3_Witness ==
    /\ \A p \in Callers : pc[p] = "idle"
    /\ epochOverlap
    /\ epochT >= 1
    /\ epochCalls > epochT

Entered(s) == \E i \in DOMAIN hist.trace : hist.trace[i] = [e |-> "enter", s |-> s]
Exited(s) == \E i \in DOMAIN hist.trace : hist.trace[i] = [e |-> "exit", s |-> s]
IsEnter(ev) == ev.e = "enter"
EnterSeq == SelectSeq(hist.trace, IsEnter)
\* The stages in the order they were listed, then the final handler.
Listed == middlewares \o <<"proxy">>
ListedAt(s) == CHOOSE k \in DOMAIN Listed : Listed[k] = s

\* C5: a request whose bucket's Allow() returned false gets 429 with
\* Retry-After: 1 and the rate-limit stage never calls next (no later stage
\* runs, no outbound call); when Allow() returned true the stage calls next
\* exactly once and writes nothing to the response itself.
C5_RateLimitStage ==
    /\ hist.allow = "false" =>
          /\ w.status = 429
          /\ HeaderGet(w.sentHdr, "Retry-After") = "1"
          /\ hist.calls["RateLimit"] = 0
          /\ \A s \in {"CORS", "Timeout", "Log", "proxy"} : ~Entered(s)
          /\ outbound = <<>>
    /\ hist.allow = "true" =>
          /\ hist.calls["RateLimit"] = 1
          /\ Cardinality({i \in DOMAIN hist.trace :
                             hist.trace[i] = [e |-> "enter", s |-> "CORS"]}) <= 1
          /\ "RateLimit" \notin hist.writers

\* C5 witness: a request was refused by its bucket and its response is complete.
C5_Witness ==
    /\ hist.allow = "false"
    /\ w.finished

\* C6: every route with qps > 0 has a bucket of its own (capacity 2*qps, rate
\* qps), and a request uses the bucket of its route when the route's qps is
\* positive and the shared bucket otherwise.
C6_DedicatedBuckets ==
    /\ \A i \in DOMAIN config.Routes :
          config.Routes[i].QPS > 0 =>
              /\ config.Routes[i].Path \in DOMAIN routeLimiters
              /\ routeLimiters[config.Routes[i].Path].Cap = 2 * config.Routes[i].QPS
              /\ routeLimiters[config.Routes[i].Path].Rate = config.Routes[i].QPS
    /\ hist.limiter # "none" =>
          hist.limiter =
              IF \E i \in DOMAIN config.Routes :
                     config.Routes[i].Path = req.Path /\ config.Routes[i].QPS > 0
              THEN req.Path ELSE "global"

\* The part of C7 about the way in: the stages start in the listed order, a
\* stage starts only if the one before it called next, and after a stage that
\* returned without calling next no later stage and not the final handler runs.
C7_InOrder ==
    LET es == EnterSeq IN
    /\ Len(es) <= Len(Listed)
    /\ \A k \in DOMAIN es : es[k].s = Listed[k]
    /\ \A k \in DOMAIN es : k > 1 => hist.calls[Listed[k - 1]] >= 1
    /\ \A k \in DOMAIN Listed :
          (Exited(Listed[k]) /\ hist.calls[Listed[k]] = 0) => Len(es) <= k

\* Stage Listed[j], listed after the stage that returns at position p of the
\* trace, has returned before p if it started at all.
ReturnedBefore(j, p) ==
    Entered(Listed[j]) =>
        \E q \in 1..(p - 1) : hist.trace[q] = [e |-> "exit", s |-> Listed[j]]

\* C7 as stated: the above, and a stage returns (runs whatever it does after
\* calling next) only after every later stage and the final handler returned.
C7_ChainOrder ==
    /\ C7_InOrder
    /\ \A p \in DOMAIN hist.trace :
          hist.trace[p].e = "exit" =>
              \A j \in (ListedAt(hist.trace[p].s) + 1)..Len(Listed) :
                  ReturnedBefore(j, p)

\* C7 amended: the same, except across Timeout: when the deadline fired,
\* Timeout and the stages before it may return while the stages after Timeout
\* and the final handler are still running.
C7_ChainOrderAmended ==
    /\ C7_InOrder
    /\ \A p \in DOMAIN hist.trace :
          hist.trace[p].e = "exit" =>
              LET k == ListedAt(hist.trace[p].s)
                  t == ListedAt("Timeout")
              IN  \A j \in (k + 1)..Len(Listed) :
                      \/ ReturnedBefore(j, p)
                      \/ hist.fired /\ k <= t /\ j > t

\* C7 witness: every stage and the final handler ran and returned, and Timeout
\* returned on the deadline before the final handler did.
C7_Witness ==
    /\ Len(hist.trace) = 2 * Len(Listed)
    /\ hist.fired
    /\ \E p, q \in DOMAIN hist.trace :
          /\ p < q
          /\ hist.trace[p] = [e |-> "exit", s |-> "Timeout"]
          /\ hist.trace[q] = [e |-> "exit", s |-> "proxy"]

\* What Auth did to a request it has decided on, given whether the request
\* should be admitted: it called next exactly when it should; a request not
\* admitted has status 401 and reaches neither Allow() nor the forwarder.
AuthBehaves(admitted) ==
    Entered("Auth") =>
        /\ hist.calls["Auth"] = (IF admitted THEN 1 ELSE 0)
        /\ ~admitted =>
              /\ w.status = 401
              /\ hist.allow = "none"
              /\ ~Entered("RateLimit")
              /\ ~Entered("proxy")
              /\ outbound = <<>>

\* C8 as stated: Auth admits a request iff its path is exempt or the value of
\* its X-API-Key header is in the allow-list.
C8_AuthIff ==
    AuthBehaves(\/ req.Path \in config.NoAuthRoutes
                \/ /\ "X-API-Key" \in DOMAIN req.Header
                   /\ req.Header["X-API-Key"] \in config.ApiKeys)

\* C8 amended: Auth admits a request iff its path is exempt or the value of its
\* X-API-Key header is not empty and is in the allow-list.
C8_AuthIffNonEmptyKey ==
    AuthBehaves(\/ req.Path \in config.NoAuthRoutes
                \/ /\ "X-API-Key" \in DOMAIN req.Header
                   /\ req.Header["X-API-Key"] # ""
                   /\ req.Header["X-API-Key"] \in config.ApiKeys)

\* C8 witness: a request to a path that is not exempt, with a key that is not
\* in the allow-list, was answered with 401.
C8_Witness ==
    /\ w.finished
    /\ req.Path \notin config.NoAuthRoutes
    /\ "X-API-Key" \in DOMAIN req.Header
    /\ req.Header["X-API-Key"] \notin config.ApiKeys
    /\ w.status = 401

\* C9: a request whose backend call was in flight when the deadline of Timeout
\* came is answered with status 504.
C9_TimeoutYields504 ==
    (w.finished /\ hist.inFlight) => w.status = 504

\* C10: at most one of the timeout path and the downstream task (Log and the
\* forwarder) writes to the response writer of a request.
C10_SingleWriter ==
    ~("Timeout" \in hist.writers /\ hist.writers \cap {"Log", "proxy"} # {})

\* ------------------------------------------------------------- claims C11-C20

\* C11: when the context of the inbound request is cancelled (the client went
\* away) while the outbound call is in flight and the deadline has not come,
\* the context of the outbound call is cancelled.
C11_OutboundBoundToInbound ==
    (inCtxDone /\ th["g"].ph = "do" /\ ~hist.fired) => ctx.done

\* Some route of the table has the path of the request.
Matched == \E i \in DOMAIN config.Routes : config.Routes[i].Path = req.Path

\* C12: for a request whose path is the path of no route the forwarder answers
\* 404 (the status of the response, unless the timeout path wrote its 504
\* first) and no outbound call is issued; an outbound call is issued only for a
\* request whose path is the path of a route.
C12_UnmatchedIs404 ==
    /\ (Exited("proxy") /\ ~Matched) =>
          /\ hist.proxyCode = 404
          /\ outbound = <<>>
          /\ w.status \in {404, 504}
          /\ "Timeout" \notin hist.writers => w.status = 404
    /\ outbound # <<>> => Matched

\* C12 witness: a request to a path of no route went through the forwarder and
\* was answered 404.
C12_Witness ==
    /\ Exited("proxy")
    /\ ~Matched
    /\ w.finished
    /\ w.status = 404

\* C13: a request that matched a route, did not time out, and whose backend
\* call and body copy succeeded is answered with the backend's status, every
\* header of the backend with the backend's value, and the backend's body; its
\* one outbound request had the inbound method and every inbound header.
C13_SuccessRelaysBackend ==
    (w.finished /\ hist.copy = "ok" /\ ~hist.fired) =>
        /\ w.status = resp.StatusCode
        /\ \A k \in DOMAIN resp.Header :
              k \in DOMAIN w.sentHdr /\ w.sentHdr[k] = resp.Header[k]
        /\ w.body = <<resp.Body>>
        /\ Len(outbound) = 1
        /\ outbound[1].Method = req.Method
        /\ \A k \in DOMAIN req.Header :
              k \in DOMAIN outbound[1].Header /\ outbound[1].Header[k] = req.Header[k]

\* C13 witness: a request with a header was forwarded and answered from the
\* backend's response, with no timeout.
C13_Witness ==
    /\ w.finished
    /\ hist.copy = "ok"
    /\ ~hist.fired
    /\ req.Header # EmptyHeader
    /\ resp.Header # EmptyHeader

\* C14: the status code of every log entry of the Logging stage is the status
\* code the wrapped handler wrote for the request.
C14_LoggedStatus ==
    \A i \in DOMAIN hist.logged : hist.logged[i] = hist.proxyCode

\* The three Access-Control-Allow-* headers are in header map h.
HasCORS(h) ==
    /\ HeaderGet(h, "Access-Control-Allow-Origin") = "*"
    /\ HeaderGet(h, "Access-Control-Allow-Methods") = "GET, POST, PUT, DELETE, OPTIONS"
    /\ HeaderGet(h, "Access-Control-Allow-Headers") = "Content-Type, Authorization"

\* C15: the CORS stage sets the three Access-Control-Allow-* headers on every
\* request it gets; an OPTIONS request gets status 200 and next is never called
\* (Timeout, Log and the forwarder do not run, no outbound call); for any other
\* method next is called exactly once.
C15_CORSStage ==
    Entered("CORS") =>
        /\ HasCORS(w.hdr)
        /\ req.Method = "OPTIONS" =>
              /\ w.status = 200
              /\ HasCORS(w.sentHdr)
              /\ hist.calls["CORS"] = 0
              /\ \A s \in {"Timeout", "Log", "proxy"} : ~Entered(s)
              /\ outbound = <<>>
        /\ req.Method # "OPTIONS" => hist.calls["CORS"] = 1

\* C15 witness: an OPTIONS request reached the CORS stage and was answered.
C15_Witness ==
    /\ Entered("CORS")
    /\ req.Method = "OPTIONS"
    /\ w.finished

\* C16: when the copy of the backend's body failed after the backend's headers
\* and status were written, the status of the response is 502.
C16_CopyFailureIs502 ==
    hist.copy = "failed" => w.status = 502

\* The refill Allow() computes at time t: floor(elapsed seconds * Rate).
C17_Refill(t) == ((t - tb.LastCheck) * tb.Rate) \div TicksPerSec

\* One step of a caller inside Allow(), as C17 describes it.
C17_Step ==
    /\ \A p \in Callers :
          /\ (pc[p] = "refill" /\ pc'[p] = "check") =>
                IF C17_Refill(clock) = 0
                THEN tb' = tb
                ELSE /\ tb'.LastCheck = clock
                     /\ tb'.Tokens = Min(tb.Tokens + C17_Refill(clock), tb.Cap)
          /\ (pc[p] = "check" /\ pc'[p] = "retfalse") => (tb.Tokens = 0 /\ tb' = tb)
          /\ (pc[p] = "retfalse" /\ pc'[p] = "idle") => (tb.Tokens = 0 /\ tb' = tb)
    /\ tb'.Cap = tb.Cap
    /\ tb'.Rate = tb.Rate

\* C17: a call whose refill is 0 leaves LastCheck and Tokens as they were; a
\* call whose refill is positive sets LastCheck to now and Tokens to
\* min(Tokens + refill, Cap) before the admission test; a call that returns
\* false leaves Tokens at 0; no call changes Cap or Rate.
C17_AllowFrame == [][C17_Step]_vars

\* C17 witness: a call has returned false, and a later call computed a refill of
\* 0 although time had passed, leaving LastCheck behind its `now`.
C17_Witness ==
    /\ \E i \in DOMAIN results : ~results[i].ok
    /\ \E p \in Callers : pc[p] = "check" /\ callT[p] > tb.LastCheck

\* C18: when the deadline fires while the backend call is in flight, the
\* context of the outbound call is done (so the select of Timeout can return
\* without waiting for the goroutine), and the goroutine eventually returns and
\* closes `done`.
C18_TimeoutLeavesNoTask ==
    /\ [](hist.inFlight => ctx.done)
    /\ hist.inFlight ~> doneCh

\* C18 witness: the deadline fired with the call in flight, Timeout returned,
\* and afterwards the goroutine got its error from client.Do and closed `done`.
C18_Witness ==
    /\ hist.inFlight
    /\ doneCh
    /\ th["m"].ph = "done"
    /\ hist.proxyCode = 502
    /\ hist.lateWrite

\* C19: every error response the gateway produces itself (401, 429, 404, 500,
\* 502, 504) carries the headers of the CORS stage.
C19_ErrorsCarryCORS ==
    (w.finished /\ w.status \in {401, 429, 404, 500, 502, 504}) => HasCORS(w.sentHdr)

\* The calls that returned true so far.
NumTrue == Cardinality({i \in DOMAIN results : results[i].ok})

\* C20: at any time t (in seconds) since the bucket was made, the calls that
\* returned true are at most Cap + Rate * t.
C20_AdmissionBound ==
    TicksPerSec * NumTrue <= TicksPerSec * tb.Cap + tb.Rate * clock

\* C20 witness: after at least a second, with more than Cap calls admitted, the
\* bound is met exactly.
C20_Witness ==
    /\ clock >= TicksPerSec
    /\ NumTrue > tb.Cap
    /\ TicksPerSec * NumTrue = TicksPerSec * tb.Cap + tb.Rate * clock

=============================================================================
